---- MODULE Spec2Model ----
(***************************************************************************)
(* Model of mnemonist's DynamicArray (src/dynamic-array.js): a growing     *)
(* array over a JavaScript typed array, with a pluggable growing policy.   *)
(*                                                                         *)
(* The backing store is modelled as a Uint8Array (DynamicUint8Array):      *)
(* a fresh block is zero-filled, an out-of-bounds read yields undefined,   *)
(* an out-of-bounds write is ignored and a stored value is converted to    *)
(* the element type.  JavaScript indices are 0-based; the model keeps the  *)
(* block as a sequence, slot i of the code being element i + 1.            *)
(*                                                                         *)
(* Every method is one action, computed by a pure operator that carries    *)
(* the name of the method.  The variables pre, last, everThrew, written,   *)
(* pushes, fresh, snap and initialCapacity are history variables: they     *)
(* record the calls made so far and never influence the buffer.            *)
(*                                                                         *)
(* SpecSteps is the same machine with set run one loop iteration at a      *)
(* time: pc is "idle" between calls and "set" inside a call of set, whose  *)
(* parameters and entry capacity are kept in local.                        *)
(***************************************************************************)
EXTENDS Integers, Sequences, FiniteSets, TLC

VARIABLES array, length, capacity, policy,
          pre, last, everThrew, written, pushes, fresh, snap,
          initialCapacity, pc, local

vars == <<array, length, capacity, policy,
          pre, last, everThrew, written, pushes, fresh, snap,
          initialCapacity, pc, local>>

----------------------------------------------------------------------------
(* Bounds of the model                                                     *)

MaxCapacity == 4

MaxInitialCapacity == 2

MaxValue == 1

\* values handed to set and push: values of the element type
Values == 0..MaxValue

\* indices handed to set
SetIndices == 0..(MaxCapacity - 1)

\* indices handed to get
GetIndices == 0..MaxCapacity

----------------------------------------------------------------------------
(* JavaScript values and typed arrays                                      *)

\* the JavaScript value undefined; every element value is >= 0
Undefined == -1

\* number of values of a Uint8Array element
ElementModulus == 256

\* conversion applied by a Uint8Array when a value is stored in a slot
ToElement(v) == IF v = Undefined THEN 0 ELSE v % ElementModulus

\* new ArrayClass(n): a zero-filled block of n slots
NewArray(n) == [i \in 1..n |-> 0]

\* arr[i] read: undefined outside the block
Load(arr, i) == IF i >= 0 /\ i < Len(arr) THEN arr[i + 1] ELSE Undefined

\* arr[i] = v: ignored outside the block
Store(arr, i, v) ==
  IF i >= 0 /\ i < Len(arr) THEN [arr EXCEPT ![i + 1] = ToElement(v)] ELSE arr

\* a transfer whose loop stops one slot early
TransferShort(oldArray, cap, len) ==
  [i \in 1..cap |-> IF i < len THEN ToElement(Load(oldArray, i - 1)) ELSE 0]

\* this.array = new this.ArrayClass(cap);
\* for (i = 0, l = this.length; i < l; i++) this.array[i] = oldArray[i];
Transfer(oldArray, cap, len) ==
  [i \in 1..cap |-> IF i <= len THEN ToElement(Load(oldArray, i - 1)) ELSE 0]

----------------------------------------------------------------------------
(* Growing policies                                                        *)

\* Math.ceil(currentSize * 1.5)
DEFAULT_GROWING_POLICY(currentSize) == (3 * currentSize + 1) \div 2

\* policies a caller passes in the options: the identity, a policy that
\* adds one slot, and a policy that is not monotone (it falls back to 1
\* from 3 slots on)
Policies == {"default", "identity", "increment", "sawtooth"}

\* this.policy(currentSize)
PolicyApply(p, currentSize) ==
  CASE p = "default"   -> DEFAULT_GROWING_POLICY(currentSize)
    [] p = "identity"  -> currentSize
    [] p = "increment" -> currentSize + 1
    [] p = "sawtooth"  -> IF currentSize < 3 THEN currentSize + 1 ELSE 1

----------------------------------------------------------------------------
(* The methods, as functions of the buffer                                 *)
(* self = [array, length, capacity]; the result of a call is               *)
(* [self, outcome, ret, realloc]: outcome is "this" (the buffer is         *)
(* returned), "value" (ret is returned, possibly Undefined) or "throw";    *)
(* realloc tells whether the call replaced the block.                      *)

Result(self, outcome, ret, realloc) ==
  [self |-> self, outcome |-> outcome, ret |-> ret, realloc |-> realloc]

\* the loop of set with the test index > this.capacity
RECURSIVE GrowLoopOffByOne(_, _, _, _, _)
GrowLoopOffByOne(p, cur, entry, index, fuel) ==
  IF ~(index > cur) THEN [capacity |-> cur, status |-> "done"]
  ELSE IF fuel = 0 THEN [capacity |-> cur, status |-> "diverge"]
  ELSE LET next == PolicyApply(p, cur)
       IN  IF next <= entry THEN [capacity |-> next, status |-> "throw"]
           ELSE GrowLoopOffByOne(p, next, entry, index, fuel - 1)

\* while (index >= this.capacity) {
\*   this.capacity = this.policy(this.capacity);
\*   if (this.capacity <= capacity) throw ...
\* }
\* cur is this.capacity and entry the capacity read when set was entered.
\* While the loop runs, this.capacity is above entry and at most index, so
\* a loop that has not ended after fuel = index + 1 policy applications has
\* repeated a capacity and never ends: status "diverge".
RECURSIVE GrowLoop(_, _, _, _, _)
GrowLoop(p, cur, entry, index, fuel) ==
  IF ~(index >= cur) THEN [capacity |-> cur, status |-> "done"]
  ELSE IF fuel = 0 THEN [capacity |-> cur, status |-> "diverge"]
  ELSE LET next == PolicyApply(p, cur)
       IN  IF next <= entry THEN [capacity |-> next, status |-> "throw"]
           ELSE GrowLoop(p, next, entry, index, fuel - 1)

\* set that transfers as soon as index reaches the last slot
setEagerTransfer(self, p, index, value) ==
  LET entry == self.capacity
      loop  == GrowLoop(p, self.capacity, entry, index, index + 1)
      grown == IF index >= entry - 1
               THEN [array    |-> Transfer(self.array, loop.capacity, self.length),
                     length   |-> self.length,
                     capacity |-> loop.capacity]
               ELSE self
      index1 == index + 1
  IN  IF index >= entry /\ loop.status # "done"
      THEN Result([self EXCEPT !.capacity = loop.capacity], loop.status, Undefined, FALSE)
      ELSE Result([grown EXCEPT !.array  = Store(grown.array, index, value),
                                !.length = IF index1 > grown.length
                                           THEN index1 ELSE grown.length],
                  "this", Undefined, index >= entry - 1)

\* set that takes index + 1 as the length without comparing
setLengthAlways(self, p, index, value) ==
  LET entry == self.capacity
      loop  == GrowLoop(p, self.capacity, entry, index, index + 1)
      grown == IF index >= entry
               THEN [array    |-> Transfer(self.array, loop.capacity, self.length),
                     length   |-> self.length,
                     capacity |-> loop.capacity]
               ELSE self
  IN  IF index >= entry /\ loop.status # "done"
      THEN Result([self EXCEPT !.capacity = loop.capacity], loop.status, Undefined, FALSE)
      ELSE Result([grown EXCEPT !.array  = Store(grown.array, index, value),
                                !.length = index + 1],
                  "this", Undefined, index >= entry)

\* outcome "diverge": the call does not return
set(self, p, index, value) ==
  LET entry == self.capacity
      loop  == GrowLoop(p, self.capacity, entry, index, index + 1)
      grown == IF index >= entry
               THEN [array    |-> Transfer(self.array, loop.capacity, self.length),
                     length   |-> self.length,
                     capacity |-> loop.capacity]
               ELSE self
      index1 == index + 1
  IN  IF index >= entry /\ loop.status # "done"
      THEN Result([self EXCEPT !.capacity = loop.capacity], loop.status, Undefined, FALSE)
      ELSE Result([grown EXCEPT !.array  = Store(grown.array, index, value),
                                !.length = IF index1 > grown.length
                                           THEN index1 ELSE grown.length],
                  "this", Undefined, index >= entry)

get(self, index) ==
  IF self.length < index
  THEN Result(self, "value", Undefined, FALSE)
  ELSE Result(self, "value", Load(self.array, index), FALSE)

\* grow with a sanity check that accepts an equal capacity
growLax(self, p) ==
  LET entry  == self.capacity
      newCap == PolicyApply(p, entry)
  IN  IF newCap < entry
      THEN Result([self EXCEPT !.capacity = newCap], "throw", Undefined, FALSE)
      ELSE Result([array    |-> Transfer(self.array, newCap, self.length),
                   length   |-> self.length,
                   capacity |-> newCap],
                  "this", Undefined, TRUE)

grow(self, p) ==
  LET entry  == self.capacity
      newCap == PolicyApply(p, entry)
  IN  IF newCap <= entry
      THEN Result([self EXCEPT !.capacity = newCap], "throw", Undefined, FALSE)
      ELSE Result([array    |-> Transfer(self.array, newCap, self.length),
                   length   |-> self.length,
                   capacity |-> newCap],
                  "this", Undefined, TRUE)

\* push that grows only once the length is above the capacity
pushLate(self, p, value) ==
  LET g == IF self.length > self.capacity
           THEN grow(self, p)
           ELSE Result(self, "this", Undefined, FALSE)
      s == g.self
  IN  IF g.outcome = "throw" THEN g
      ELSE Result([s EXCEPT !.array  = Store(s.array, s.length, value),
                            !.length = s.length + 1],
                  "value", s.length + 1, g.realloc)

push(self, p, value) ==
  LET g == IF self.length >= self.capacity
           THEN grow(self, p)
           ELSE Result(self, "this", Undefined, FALSE)
      s == g.self
  IN  IF g.outcome = "throw" THEN g
      ELSE Result([s EXCEPT !.array  = Store(s.array, s.length, value),
                            !.length = s.length + 1],
                  "value", s.length + 1, g.realloc)

\* pop that reads the slot before decrementing: this.array[this.length--]
popPostDecrement(self) ==
  IF self.length = 0
  THEN Result(self, "value", Undefined, FALSE)
  ELSE Result([self EXCEPT !.length = self.length - 1],
              "value", Load(self.array, self.length), FALSE)

pop(self) ==
  IF self.length = 0
  THEN Result(self, "value", Undefined, FALSE)
  ELSE Result([self EXCEPT !.length = self.length - 1],
              "value", Load(self.array, self.length - 1), FALSE)

----------------------------------------------------------------------------
(* State machine                                                           *)

Self == [array |-> array, length |-> length, capacity |-> capacity]

NoWrites == [i \in 0..(MaxCapacity - 1) |-> Undefined]

NoSnap == [length |-> 0, values |-> <<>>, x |-> Undefined]

\* the values get returns for the indices below the length
Observed(self) == [i \in 1..self.length |-> get(self, i - 1).ret]

\* index, value and var capacity of set while no call of set runs
NoLocal == [index |-> Undefined, value |-> Undefined, capacity |-> Undefined]

\* new DynamicArray(ArrayClass, {initialCapacity: c, policy: p})
DynamicArray(c, p) ==
  /\ array = NewArray(c)
  /\ length = 0
  /\ capacity = c
  /\ policy = p

Init ==
  /\ \E c \in 0..MaxInitialCapacity, p \in Policies : DynamicArray(c, p)
  /\ pre = [array |-> array, length |-> length, capacity |-> capacity]
  /\ last = [op |-> "new", index |-> Undefined, value |-> Undefined,
             outcome |-> "this", ret |-> Undefined, realloc |-> FALSE]
  /\ everThrew = FALSE
  /\ written = NoWrites
  /\ pushes = <<>>
  /\ fresh = TRUE
  /\ snap = NoSnap
  /\ initialCapacity = capacity
  /\ pc = "idle"
  /\ local = NoLocal

\* the call op(index, value) with result r is made; the model follows a
\* buffer only while it has at most MaxCapacity slots
Call(op, index, value, r) ==
  /\ pc = "idle"
  /\ UNCHANGED <<initialCapacity, pc, local>>
  /\ r.self.capacity <= MaxCapacity
  /\ r.self.length <= MaxCapacity
  /\ array' = r.self.array
  /\ length' = r.self.length
  /\ capacity' = r.self.capacity
  /\ policy' = policy
  /\ pre' = Self
  /\ last' = [op |-> op, index |-> index, value |-> value,
              outcome |-> r.outcome, ret |-> r.ret, realloc |-> r.realloc]
  /\ everThrew' = (everThrew \/ r.outcome = "throw")

\* the write log after a call that wrote value at slot index (or nothing
\* when index is Undefined): entries at or above the new length are dropped
Log(index, value, newLength) ==
  [i \in 0..(MaxCapacity - 1) |->
     IF i >= newLength THEN Undefined
     ELSE IF i = index THEN value
     ELSE written[i]]

Set(index, value) ==
  LET r == set(Self, policy, index, value)
  IN  /\ r.outcome # "diverge"
      /\ Call("set", index, value, r)
      /\ written' = IF r.outcome = "throw" THEN written
                    ELSE Log(index, value, r.self.length)
      /\ pushes' = <<>>
      /\ fresh' = FALSE
      /\ snap' = NoSnap

Get(index) ==
  LET r == get(Self, index)
  IN  /\ Call("get", index, Undefined, r)
      /\ written' = written
      /\ pushes' = <<>>
      /\ fresh' = FALSE
      /\ snap' = NoSnap

Grow ==
  LET r == grow(Self, policy)
  IN  /\ Call("grow", Undefined, Undefined, r)
      /\ written' = written
      /\ pushes' = <<>>
      /\ fresh' = FALSE
      /\ snap' = NoSnap

Push(value) ==
  LET r == push(Self, policy, value)
  IN  /\ Call("push", Undefined, value, r)
      /\ written' = IF r.outcome = "throw" THEN written
                    ELSE Log(length, value, r.self.length)
      /\ pushes' = IF fresh THEN Append(pushes, value) ELSE pushes
      /\ fresh' = (fresh /\ r.outcome # "throw")
      /\ snap' = IF last.op = "pop" /\ snap # NoSnap /\ value = snap.x
                 THEN snap ELSE NoSnap

Pop ==
  LET r == pop(Self)
  IN  /\ Call("pop", Undefined, Undefined, r)
      /\ written' = Log(Undefined, Undefined, r.self.length)
      /\ pushes' = <<>>
      /\ fresh' = FALSE
      /\ snap' = IF length > 0
                 THEN [length |-> length, values |-> Observed(Self), x |-> r.ret]
                 ELSE NoSnap

Next ==
  \/ \E index \in SetIndices, value \in Values : Set(index, value)
  \/ \E index \in GetIndices : Get(index)
  \/ Grow
  \/ \E value \in Values : Push(value)
  \/ Pop

Spec == Init /\ [][Next]_vars

----------------------------------------------------------------------------
(* set, one loop iteration at a time                                       *)

\* set is entered: var capacity = this.capacity.  The call is followed
\* only if its loop stays within MaxCapacity slots.
SetEnter(index, value) ==
  LET r == set(Self, policy, index, value)
  IN  /\ pc = "idle"
      /\ r.outcome = "diverge" \/ r.self.capacity <= MaxCapacity
      /\ pc' = "set"
      /\ local' = [index |-> index, value |-> value, capacity |-> capacity]
      /\ pre' = Self
      /\ last' = [op |-> "set", index |-> index, value |-> value,
                  outcome |-> "running", ret |-> Undefined, realloc |-> FALSE]
      /\ pushes' = <<>>
      /\ fresh' = FALSE
      /\ snap' = NoSnap
      /\ UNCHANGED <<array, length, capacity, policy, everThrew, written,
                     initialCapacity>>

\* one iteration of while (index >= this.capacity): the policy is applied
\* and the result compared with the capacity read at entry
SetIterate ==
  LET next == PolicyApply(policy, capacity)
      threw == next <= local.capacity
  IN  /\ pc = "set"
      /\ local.index >= local.capacity
      /\ local.index >= capacity
      /\ capacity' = next
      /\ pc' = IF threw THEN "idle" ELSE "set"
      /\ local' = IF threw THEN NoLocal ELSE local
      /\ last' = IF threw THEN [last EXCEPT !.outcome = "throw"] ELSE last
      /\ everThrew' = (everThrew \/ threw)
      /\ UNCHANGED <<array, length, policy, pre, written, pushes, fresh,
                     snap, initialCapacity>>

\* the loop has ended or was not entered: transfer, write, length update
SetFinish ==
  LET index  == local.index
      grew   == index >= local.capacity
      block  == IF grew THEN Transfer(array, capacity, length) ELSE array
      index1 == index + 1
      newLength == IF index1 > length THEN index1 ELSE length
  IN  /\ pc = "set"
      /\ grew => ~(index >= capacity)
      /\ array' = Store(block, index, local.value)
      /\ length' = newLength
      /\ pc' = "idle"
      /\ local' = NoLocal
      /\ last' = [last EXCEPT !.outcome = "this", !.realloc = grew]
      /\ written' = Log(index, local.value, newLength)
      /\ UNCHANGED <<capacity, policy, pre, everThrew, pushes, fresh, snap,
                     initialCapacity>>

NextSteps ==
  \/ \E index \in SetIndices, value \in Values : SetEnter(index, value)
  \/ SetIterate
  \/ SetFinish
  \/ \E index \in GetIndices : Get(index)
  \/ Grow
  \/ \E value \in Values : Push(value)
  \/ Pop

\* a call runs to completion: an enabled step of set is eventually taken
SpecSteps ==
  Init /\ [][NextSteps]_vars /\ WF_vars(SetIterate) /\ WF_vars(SetFinish)

----------------------------------------------------------------------------
(* Claims                                                                  *)

\* C1: after any sequence of calls, also calls that end with a policy
\* error, 0 <= length <= capacity and the capacity field is the number of
\* slots of the allocated block.
C1_LengthCapacityInvariant ==
  /\ 0 <= length
  /\ length <= capacity
  /\ capacity = Len(array)

\* C2: get(index) with index >= length returns undefined, never the value
\* of a slot, and never raises.
C2_TolerantRead ==
  (last.op = "get" /\ last.index >= pre.length)
    => (last.outcome = "value" /\ last.ret = Undefined)

\* C3: a set, grow or push that ends with a policy error leaves capacity,
\* length and the block as they were before the call.
C3_NoPartialMutation ==
  (last.op \in {"set", "grow", "push"} /\ last.outcome = "throw")
    => (array = pre.array /\ length = pre.length /\ capacity = pre.capacity)

\* C4: with initial capacity 0 and the default policy, set(0, v) succeeds
\* and leaves capacity > 0, length = 1 and get(0) = v.
C4_SetOnZeroCapacity ==
  (policy = "default" /\ pre.capacity = 0 /\ pre.length = 0
     /\ last.op = "set" /\ last.index = 0)
    => /\ last.outcome = "this"
       /\ capacity > 0
       /\ length = 1
       /\ get(Self, 0).ret = last.value

\* C5: with the default policy and any initial capacity, n pushes on a
\* fresh buffer give length n, every push returns the new length and
\* get(i) is the i-th pushed value.
C5_PushSequence ==
  (policy = "default" /\ last.op = "push" /\ pushes # <<>>)
    => /\ length = Len(pushes)
       /\ last.outcome = "value"
       /\ last.ret = length
       /\ \A i \in 0..(Len(pushes) - 1) : get(Self, i).ret = pushes[i + 1]

\* C6: after successful calls only, get(index) with index < length returns
\* the value last written at index by set or push, if index has stayed
\* below the length since that write.
C6_ReadAfterWrite ==
  ~everThrew =>
    \A i \in 0..(length - 1) :
      written[i] # Undefined => get(Self, i) = Result(Self, "value", written[i], FALSE)

C6_Witness ==
  /\ ~everThrew
  /\ last.op = "set" /\ last.realloc
  /\ \E i \in 0..(length - 1) :
       i # last.index /\ written[i] = 1 /\ get(Self, i).ret = 1

\* C7: a reallocation (by set, by grow or by the grow of a push) keeps the
\* value of every slot below the length held before it, except the slot
\* the same set call overwrites.
C7_GrowthPreservesPrefix ==
  last.realloc =>
    \A i \in 0..(pre.length - 1) :
      \/ last.op = "set" /\ i = last.index
      \/ Load(array, i) = Load(pre.array, i)

\* C8: on a non-empty buffer, x = pop() followed by push(x) restores the
\* length and the value at every index below it, and the push does not
\* grow the buffer.
C8_PopPushInverse ==
  (last.op = "push" /\ snap # NoSnap)
    => /\ last.outcome = "value"
       /\ length = snap.length
       /\ Observed(Self) = snap.values
       /\ ~last.realloc
       /\ capacity = pre.capacity

\* C9: the capacity field never decreases from one state to the next,
\* whatever the policy and also across calls that end with a policy error.
C9_CapacityNeverDecreases == [][capacity' >= capacity]_vars

\* C10: grow() raises exactly when policy(capacity) <= capacity; with the
\* identity policy it raises and leaves the capacity as it was.
C10_GrowFailsIffNotIncreasing ==
  last.op = "grow" =>
    /\ (last.outcome = "throw")
         <=> (PolicyApply(policy, pre.capacity) <= pre.capacity)
    /\ policy = "identity" => (last.outcome = "throw" /\ capacity = pre.capacity)

C10_Witness ==
  /\ last.op = "grow" /\ policy = "identity"
  /\ pre.capacity > 0 /\ pre.length > 0
  /\ last.outcome = "throw" /\ capacity = pre.capacity

\* C11: in the loop of set every application of the policy must return
\* more than the capacity it was applied to; the first one that does not
\* makes set raise the policy error (and no other application does).
C11_EveryApplicationChecked ==
  [][(pc = "set" /\ local.index >= capacity)
       => ((last'.outcome = "throw") <=> (capacity' <= capacity))]_vars

\* C12: every call of set terminates, by returning the buffer or by
\* raising the policy error, whatever the policy.
C12_SetTerminates == (pc = "set") ~> (pc = "idle")

\* the capacity after k applications of the policy, starting from c
RECURSIVE Iterate(_, _, _)
Iterate(p, c, k) == IF k = 0 THEN c ELSE PolicyApply(p, Iterate(p, c, k - 1))

\* cap is the first value above index in the sequence policy(c),
\* policy(policy(c)), ...
FirstAbove(p, c, index, cap) ==
  \E k \in 1..(index + 1) :
    /\ Iterate(p, c, k) = cap
    /\ cap > index
    /\ \A j \in 1..(k - 1) : Iterate(p, c, j) <= index

\* C13: after a successful set(index, v), length is max(old length,
\* index + 1), get(index) is v, capacity is above index, and capacity is
\* the old one if index was below it and otherwise the first value above
\* index obtained by iterating the policy from the old capacity.
C13_SetPostcondition ==
  (last.op = "set" /\ last.outcome = "this")
    => /\ length = IF pre.length > last.index + 1
                   THEN pre.length ELSE last.index + 1
       /\ get(Self, last.index) = Result(Self, "value", last.value, FALSE)
       /\ capacity > last.index
       /\ last.index < pre.capacity => capacity = pre.capacity
       /\ last.index >= pre.capacity
            => FirstAbove(policy, pre.capacity, last.index, capacity)

\* a sparse set on an empty buffer that needs several policy applications
C13_Witness ==
  /\ last.op = "set" /\ last.outcome = "this"
  /\ pre.length = 0 /\ last.index >= 2 /\ last.value = 1
  /\ length = last.index + 1
  /\ capacity > pre.capacity + 1
  /\ get(Self, last.index).ret = 1

\* C14: push leaves the capacity unchanged when length < capacity and
\* otherwise applies the policy once, the capacity becoming
\* policy(old capacity); with the default policy, the third push on a
\* buffer of initial capacity 2 finds length 2 / capacity 2 and leaves
\* length 3 / capacity 3 and the three pushed values at get(0..2).
C14_PushCapacity ==
  /\ last.op = "push" =>
       /\ pre.length < pre.capacity => capacity = pre.capacity
       /\ pre.length >= pre.capacity
            => capacity = PolicyApply(policy, pre.capacity)
  /\ (policy = "default" /\ initialCapacity = 2 /\ fresh /\ Len(pushes) = 2)
       => (length = 2 /\ capacity = 2)
  /\ (policy = "default" /\ initialCapacity = 2 /\ fresh /\ Len(pushes) = 3)
       => (length = 3 /\ capacity = 3 /\ Observed(Self) = pushes)

\* the third push of the scenario
C14_Witness ==
  /\ policy = "default" /\ initialCapacity = 2 /\ fresh
  /\ last.op = "push" /\ last.realloc
  /\ pushes = <<1, 0, 1>>
  /\ pre.capacity = 2 /\ capacity = 3 /\ length = 3

\* C15: pop() on an empty buffer returns undefined and changes nothing; on
\* a non-empty buffer it returns the value at index old length - 1 and
\* decrements the length by one; capacity and every slot of the block,
\* the popped one included, are unchanged in both cases.
C15_PopFrame ==
  last.op = "pop" =>
    /\ last.outcome = "value"
    /\ pre.length = 0 => (last.ret = Undefined /\ length = 0)
    /\ pre.length > 0 => /\ last.ret = Load(pre.array, pre.length - 1)
                         /\ length = pre.length - 1
    /\ capacity = pre.capacity
    /\ array = pre.array

\* a pop that returns a stored 1 and leaves it in its slot
C15_Witness ==
  /\ last.op = "pop" /\ pre.length > 0
  /\ last.ret = 1
  /\ length < Len(array) /\ array[length + 1] = 1

\* C16: a successful grow() sets the capacity to policy(old capacity),
\* allocates a block of that size and leaves the length and the value of
\* every slot below the length unchanged; get() changes nothing.
C16_GrowFrame ==
  /\ (last.op = "grow" /\ last.outcome = "this") =>
       /\ capacity = PolicyApply(policy, pre.capacity)
       /\ Len(array) = capacity
       /\ length = pre.length
       /\ \A i \in 0..(length - 1) : Load(array, i) = Load(pre.array, i)
  /\ last.op = "get" => Self = pre

\* the policy returns more than c for every capacity c reached from c0 by
\* applying it, as far as the model follows the buffer
StrictlyIncreasingFrom(p, c0) ==
  \A k \in 0..MaxCapacity :
    Iterate(p, c0, k) <= MaxCapacity
      => PolicyApply(p, Iterate(p, c0, k)) > Iterate(p, c0, k)

\* C17: if policy(c) > c for every capacity c reachable from the initial
\* capacity, no set, grow or push ever raises and every state has
\* capacity = size of the block and 0 <= length <= capacity.
C17_HealthyPolicy ==
  StrictlyIncreasingFrom(policy, initialCapacity)
    => /\ ~everThrew
       /\ last.outcome # "throw"
       /\ capacity = Len(array)
       /\ 0 <= length /\ length <= capacity

\* the default policy from capacity 1, after pushes that grew the block
C17_Witness ==
  /\ policy = "default" /\ initialCapacity = 1
  /\ StrictlyIncreasingFrom(policy, initialCapacity)
  /\ last.op = "push" /\ last.realloc
  /\ capacity = 3 /\ length = 3

\* C18: set(index, v) with index < capacity does not apply the policy and
\* does not reallocate: the capacity and the block are kept and slot index
\* is the only slot whose value changes, also when index > length (the
\* values earlier pops left between the old length and index are then
\* returned by get).
C18_SetBelowCapacity ==
  (last.op = "set" /\ last.index < pre.capacity)
    => /\ last.outcome = "this"
       /\ ~last.realloc
       /\ capacity = pre.capacity
       /\ Len(array) = Len(pre.array)
       /\ \A i \in 0..(Len(array) - 1) :
            i # last.index => Load(array, i) = Load(pre.array, i)
       /\ Load(array, last.index) = ToElement(last.value)

\* a set above the length that uncovers a 1 left by an earlier pop
C18_Witness ==
  /\ last.op = "set" /\ last.index < pre.capacity
  /\ last.index > pre.length
  /\ \E i \in pre.length..(last.index - 1) :
       /\ written[i] = Undefined
       /\ Load(pre.array, i) = 1
       /\ get(Self, i).ret = 1

====
